---- MODULE Spec2Model ----
(***************************************************************************)
(* The wired payment pipeline of rinha-backend-2025:                       *)
(*   create_payment -> PaymentService::submit_payment -> mpsc channel ->   *)
(*   PaymentService::process_payments_async -> process_single_payment ->   *)
(*   PaymentProcessorClient::process_payment -> try_processor ->           *)
(*   CircuitBreaker / send_request -> storage (DashMap) + AtomicMetrics.   *)
(*                                                                         *)
(* HTTP handler tasks run in parallel with the single worker task; every   *)
(* atomic operation of the code (fetch_add, DashMap::insert, channel send  *)
(* and recv, a locked breaker section, an upstream response) is one step.  *)
(***************************************************************************)
EXTENDS Integers, Sequences, FiniteSets, TLC

\* ------------------------------------------------------------- bounds
\* Total number of submit_payment calls explored.
MaxSubmitted == 2
\* Wall clock values explored: 0..MaxTime (seconds).
MaxTime == 1
\* Config::queue_buffer_size (QUEUE_BUFFER_SIZE), model value.
QUEUE_BUFFER_SIZE == 1
\* Config::circuit_breaker_threshold (CIRCUIT_BREAKER_THRESHOLD), model value.
CIRCUIT_BREAKER_THRESHOLD == 1
\* Config::circuit_breaker_timeout_secs (CIRCUIT_BREAKER_TIMEOUT), model value.
CIRCUIT_BREAKER_TIMEOUT == 1
\* Thresholds 1..MaxThreshold of a CircuitBreaker driven alone.
MaxThreshold == 2
\* Number of method calls made on a CircuitBreaker driven alone.
MaxCalls == 5
\* Channel capacities 1..MaxQueue explored next to QUEUE_BUFFER_SIZE.
MaxQueue == 2

\* HTTP handler tasks that may run create_payment concurrently.
Clients == {"h1", "h2"}
\* PaymentRequest.id values.
Ids == {"a", "b"}
\* The PaymentRequest bodies clients post: two ids, two amounts (cents), one
\* id with both amounts.
PaymentRequests ==
    {[id |-> "a", amount |-> 30], [id |-> "a", amount |-> 100],
     [id |-> "b", amount |-> 100]}
\* JSON bodies that do not decode as a PaymentRequest: a missing amount, a
\* missing id, an amount that is no u64.
MalformedPayloads ==
    {[id |-> "a"], [amount |-> 30], [id |-> "b", amount |-> -1]}
\* JSON bodies with a field PaymentRequest does not have.
ExtendedPayloads == {[id |-> "b", amount |-> 100, currency |-> "BRL"]}
\* The JSON bodies clients post to /payments.
Payloads == PaymentRequests \cup MalformedPayloads \cup ExtendedPayloads
\* Option<T>: None is the empty sequence, Some(x) the sequence of x alone.
None == <<>>
Some(x) == <<x>>
unwrap(option) == option[1]

\* serde_json::from_value::<PaymentRequest>(payload): unknown fields are
\* ignored, id and amount are required, amount is a u64.
from_value(payload) ==
    IF /\ {"id", "amount"} \subseteq DOMAIN payload
       /\ payload.amount >= 0
    THEN Some([id |-> payload.id, amount |-> payload.amount])
    ELSE None

\* create_payment: the StatusCode answered for the result of submit_payment;
\* Ok(Json(..)) is answered with 200.
status_code(result) ==
    CASE result = "Ok" -> 200
      [] result = "QueueFull" -> 503
      [] OTHER -> 500

\* The two processor_type keys of try_processor.
Tags == {"default", "fallback"}

\* What an upstream POST /payments can come back with: a 2xx status, another
\* status, or a transport error / the 5 s client timeout.
Responses == {"2xx", "non2xx", "error"}

\* Config::from_env: the default upstream URLs, the breaker tunables at their
\* model values.
DefaultConfig ==
    [default_processor_url |-> "http://payment-processor-default:8080",
     fallback_processor_url |-> "http://payment-processor-fallback:8080",
     queue_buffer_size |-> QUEUE_BUFFER_SIZE,
     circuit_breaker_threshold |-> CIRCUIT_BREAKER_THRESHOLD,
     circuit_breaker_timeout_secs |-> CIRCUIT_BREAKER_TIMEOUT]

\* str::contains(url, "default") on the URLs the model configures.
url_contains_default(url) ==
    url \in {"http://payment-processor-default:8080",
             "http://default-backup:8080"}

VARIABLES
    config,            \* Config (immutable after startup)
    storage,           \* PaymentStorage: id -> Payment, None when absent
    queue,             \* buffer of the mpsc channel, FIFO
    receiver_dropped,  \* the channel's Receiver has been dropped
    metrics,           \* AtomicMetrics: submitted, processed, failed
    breakers,          \* default_breaker and fallback_breaker
    http,              \* per handler task: where it is inside submit_payment
    worker,            \* the worker task: where it is inside the dispatch
    now,               \* SystemTime::now(), in seconds
    hist,              \* history: per submission (numbered in the order of
                       \* increment_submitted) its id, the result of
                       \* submit_payment, how often the worker received it,
                       \* how often it wrote a terminal record for it, how
                       \* many POSTs its dispatch got answered and how many
                       \* of the answers were 2xx, its amount, its place in
                       \* the order of the sends and in the order of the
                       \* receives, and the tag the worker wrote for it
    disp,              \* history of the dispatch in progress: the breakers
                       \* consulted, the POSTs answered, the 2xx answers, the
                       \* tags written to the ledger, the breakers at recv
    calls,             \* history of the CircuitBreaker methods called on
                       \* default_breaker alone, outside try_processor: the
                       \* method, what it returned and the time of the call
    probe,             \* history: the last health_check call that returned,
                       \* who made it, for which processor, what it returned
    server,            \* main: where it is around axum::serve
    locks              \* per breaker Mutex: the task holding its MutexGuard

vars == <<config, storage, queue, receiver_dropped, metrics, breakers, http,
          worker, now, hist, disp, calls, probe, server, locks>>

\* ------------------------------------------------------ CircuitBreaker

\* CircuitBreaker::new(threshold, timeout_secs)
CircuitBreaker_new(threshold, timeout_secs) ==
    [state |-> "Closed", failure_count |-> 0, last_failure_time |-> None,
     threshold |-> threshold, timeout |-> timeout_secs]

\* SystemTime::elapsed().unwrap_or(Duration::ZERO)
elapsed(last_failure, t) ==
    IF t >= last_failure THEN t - last_failure ELSE 0

\* Mutant of can_execute: an Open breaker lets a probe through at once.
can_execute_probes_at_once(b, t) ==
    CASE b.state = "Closed" -> [ret |-> TRUE, self |-> b]
      [] b.state = "Open" ->
            [ret |-> TRUE, self |-> [b EXCEPT !.state = "HalfOpen"]]
      [] b.state = "HalfOpen" -> [ret |-> TRUE, self |-> b]

\* Mutant of can_execute: the probe that leaves Open forgets the failures.
can_execute_clears_count(b, t) ==
    CASE b.state = "Closed" -> [ret |-> TRUE, self |-> b]
      [] b.state = "Open" ->
            IF b.last_failure_time # None
               /\ elapsed(unwrap(b.last_failure_time), t) >= b.timeout
            THEN [ret |-> TRUE,
                  self |-> [b EXCEPT !.state = "HalfOpen",
                                     !.failure_count = 0,
                                     !.last_failure_time = None]]
            ELSE [ret |-> FALSE, self |-> b]
      [] b.state = "HalfOpen" -> [ret |-> TRUE, self |-> b]

\* Mutant of can_execute: an Open breaker admits the request and stays Open.
can_execute_admits_open(b, t) == [ret |-> TRUE, self |-> b]

\* Mutant of can_execute: an Open breaker refuses for ever.
can_execute_never_recovers(b, t) ==
    CASE b.state = "Closed" -> [ret |-> TRUE, self |-> b]
      [] b.state = "Open" -> [ret |-> FALSE, self |-> b]
      [] b.state = "HalfOpen" -> [ret |-> TRUE, self |-> b]

\* CircuitBreaker::can_execute(&mut self): the returned bool and self after it.
can_execute(b, t) ==
    CASE b.state = "Closed" -> [ret |-> TRUE, self |-> b]
      [] b.state = "Open" ->
            IF b.last_failure_time # None
            THEN IF elapsed(unwrap(b.last_failure_time), t)
                       >= b.timeout
                 THEN [ret |-> TRUE, self |-> [b EXCEPT !.state = "HalfOpen"]]
                 ELSE [ret |-> FALSE, self |-> b]
            ELSE [ret |-> FALSE, self |-> b]
      [] b.state = "HalfOpen" -> [ret |-> TRUE, self |-> b]

\* Mutant of record_success: the failure count survives the reset.
record_success_keeps_count(b) ==
    [b EXCEPT !.state = "Closed", !.last_failure_time = None]

\* CircuitBreaker::record_success
record_success(b) ==
    [b EXCEPT !.failure_count = 0, !.state = "Closed",
              !.last_failure_time = None]

\* Mutant of record_failure: failures are counted, the breaker never opens.
record_failure_never_opens(b, t) ==
    [b EXCEPT !.failure_count = @ + 1, !.last_failure_time = Some(t)]

\* Mutant of record_failure: only a Closed breaker is opened by a failure.
record_failure_opens_closed_only(b, t) ==
    LET count == b.failure_count + 1 IN
    [b EXCEPT !.failure_count = count,
              !.last_failure_time = Some(t),
              !.state = IF count >= b.threshold /\ @ = "Closed"
                        THEN "Open" ELSE @]

\* Mutant of record_failure: the breaker trips one failure early.
record_failure_trips_early(b, t) ==
    LET count == b.failure_count + 1 IN
    [b EXCEPT !.failure_count = count,
              !.last_failure_time = Some(t),
              !.state = IF count + 1 >= b.threshold THEN "Open" ELSE @]

\* Mutant of record_failure: the time of the failure is not kept.
record_failure_forgets_time(b, t) ==
    LET count == b.failure_count + 1 IN
    [b EXCEPT !.failure_count = count,
              !.state = IF count >= b.threshold THEN "Open" ELSE @]

\* Mutant of record_failure: the breaker trips one failure late.
record_failure_trips_late(b, t) ==
    LET count == b.failure_count + 1 IN
    [b EXCEPT !.failure_count = count,
              !.last_failure_time = Some(t),
              !.state = IF count > b.threshold THEN "Open" ELSE @]

\* CircuitBreaker::record_failure
record_failure(b, t) ==
    LET count == b.failure_count + 1 IN
    [b EXCEPT !.failure_count = count,
              !.last_failure_time = Some(t),
              !.state = IF count >= b.threshold THEN "Open" ELSE @]

\* ------------------------------------------------------------ Payments

\* The Payment submit_payment stores at acceptance.
pending_payment(request) ==
    [id |-> request.id, amount |-> request.amount, processor |-> "pending",
     fee |-> 0, processed_at |-> None]

\* Mutant of failed_payment: the record of a failed dispatch stays pending.
failed_payment_left_pending(request, t) ==
    [id |-> request.id, amount |-> request.amount, processor |-> "pending",
     fee |-> 0, processed_at |-> Some(t)]

\* Mutant of failed_payment: the failure is not recorded, the record stays as
\* submit_payment wrote it.
failed_payment_unrecorded(request, t) ==
    [id |-> request.id, amount |-> request.amount, processor |-> "pending",
     fee |-> 0, processed_at |-> None]

\* Mutant of failed_payment: a failed record is charged the fee.
failed_payment_charges_fee(request, t) ==
    [id |-> request.id, amount |-> request.amount, processor |-> "failed",
     fee |-> request.amount \div 20, processed_at |-> Some(t)]

\* The Payment process_single_payment stores when process_payment gave None.
failed_payment(request, t) ==
    [id |-> request.id, amount |-> request.amount, processor |-> "failed",
     fee |-> 0, processed_at |-> Some(t)]

\* Mutant of processed_payment: the fee is rounded up.
processed_payment_rounds_up(url, request, t) ==
    [id |-> request.id, amount |-> request.amount,
     processor |-> IF url_contains_default(url) THEN "default" ELSE "fallback",
     fee |-> (request.amount + 19) \div 20,
     processed_at |-> Some(t)]

\* The Payment send_request builds on a 2xx response.
processed_payment(url, request, t) ==
    [id |-> request.id, amount |-> request.amount,
     processor |-> IF url_contains_default(url) THEN "default" ELSE "fallback",
     fee |-> request.amount \div 20,
     processed_at |-> Some(t)]

\* The (url, breaker) pair try_processor selects for a processor_type.
processor_url(processor_type) ==
    IF processor_type = "default" THEN config.default_processor_url
    ELSE config.fallback_processor_url

\* Mutant of storage_insert: nothing is stored.
storage_insert_dropped(s, payment) == s

\* Mutant of storage_insert: a record that is no longer pending is kept.
storage_insert_first_wins(s, payment) ==
    IF s[payment.id] # None /\ unwrap(s[payment.id]).processor # "pending"
    THEN s
    ELSE [s EXCEPT ![payment.id] = Some(payment)]

\* DashMap::insert(id, payment): unconditional insert or overwrite.
storage_insert(s, payment) ==
    [s EXCEPT ![payment.id] = Some(payment)]

\* The ids present in the ledger.
storage_keys(s) == {id \in Ids : s[id] # None}

\* SummaryResult of an empty ledger.
SummaryZero ==
    [total_amount_cents |-> 0, total_fee_cents |-> 0, count |-> 0,
     count_processed |-> 0, count_failed |-> 0]

\* Mutant of summary_add: processed_at is not looked at.
summary_add_ignores_processed_at(acc, payment) ==
    [total_amount_cents |-> acc.total_amount_cents + payment.amount,
     total_fee_cents |-> acc.total_fee_cents + payment.fee,
     count |-> acc.count + 1,
     count_processed |-> acc.count_processed
          + (IF payment.processor # "failed" THEN 1 ELSE 0),
     count_failed |-> acc.count_failed
          + (IF payment.processor = "failed" THEN 1 ELSE 0)]

\* Mutant of summary_add: the fees are not added up.
summary_add_drops_fee(acc, payment) ==
    LET counted == payment.processed_at # None IN
    [total_amount_cents |-> acc.total_amount_cents
                              + (IF counted THEN payment.amount ELSE 0),
     total_fee_cents |-> acc.total_fee_cents,
     count |-> acc.count + 1,
     count_processed |-> acc.count_processed
          + (IF counted /\ payment.processor # "failed" THEN 1 ELSE 0),
     count_failed |-> acc.count_failed
          + (IF counted /\ payment.processor = "failed" THEN 1 ELSE 0)]

\* The loop body of get_summary: one Payment added to the running totals.
summary_add(acc, payment) ==
    LET counted == payment.processed_at # None IN
    [total_amount_cents |-> acc.total_amount_cents
                              + (IF counted THEN payment.amount ELSE 0),
     total_fee_cents |-> acc.total_fee_cents
                              + (IF counted THEN payment.fee ELSE 0),
     count |-> acc.count + 1,
     count_processed |-> acc.count_processed
          + (IF counted /\ payment.processor # "failed" THEN 1 ELSE 0),
     count_failed |-> acc.count_failed
          + (IF counted /\ payment.processor = "failed" THEN 1 ELSE 0)]

\* get_summary's iteration over the entries of the ledger.
RECURSIVE summary_fold(_, _)
summary_fold(s, ids) ==
    IF ids = {} THEN SummaryZero
    ELSE LET id == CHOOSE x \in ids : TRUE IN
         summary_add(summary_fold(s, ids \ {id}), unwrap(s[id]))

\* PaymentService::get_summary (the filters are not applied).
get_summary(s) == summary_fold(s, storage_keys(s))

\* A handler task outside submit_payment.
HandlerIdle == [pc |-> "idle", request |-> None]

\* The worker task waiting in receiver.recv().await.
WorkerIdle ==
    [pc |-> "recv", request |-> None, processor_type |-> None, result |-> None]

\* History of a dispatch that has done nothing yet.
NoDispatch ==
    [asked |-> <<>>, posts |-> <<>>, oks |-> <<>>, commits |-> <<>>,
     before |-> None]

\* The tasks that hold an Arc<PaymentService>, and with it the channel's only
\* Sender: the router's state while axum::serve runs, a handler task while
\* it serves a request, the worker task while it runs process_payments_async.
service_refs ==
    (IF server = "serving" THEN {"router"} ELSE {})
      \cup {c \in Clients : http[c].pc # "idle"}
      \cup (IF worker.pc \in {"exited", "cancelled", "panicked"}
            THEN {} ELSE {"worker"})

\* The channel is closed: its Sender was dropped with the last reference to
\* the PaymentService.
channel_closed == service_refs = {}

\* ---------------------------------------------------------------- Init

\* main: the state its constructors build from a Config.
Startup ==
    /\ storage = [id \in Ids |-> None]
    /\ queue = <<>>
    /\ receiver_dropped = FALSE
    /\ metrics = [submitted |-> 0, processed |-> 0, failed |-> 0]
    /\ breakers = [tag \in Tags |->
                       CircuitBreaker_new(config.circuit_breaker_threshold,
                                          config.circuit_breaker_timeout_secs)]
    /\ http = [c \in Clients |-> HandlerIdle]
    /\ worker = WorkerIdle
    /\ now = 0
    /\ hist = <<>>
    /\ disp = NoDispatch
    /\ calls = <<>>
    /\ probe = None
    /\ server = "serving"
    /\ locks = [tag \in Tags |-> None]

\* The process started with the default configuration.
Init ==
    /\ config = DefaultConfig
    /\ Startup

\* ------------------------------------------------- HTTP handler tasks

\* create_payment decoded the body and entered submit_payment, which first
\* counts the submission (AtomicMetrics::increment_submitted). The history
\* numbers the submission by the value the counter took.
create_payment(c) ==
    /\ server = "serving"
    /\ http[c].pc = "idle"
    /\ metrics.submitted < MaxSubmitted
    /\ \E payload \in Payloads :
          LET decoded == from_value(payload)
              request == [id |-> unwrap(decoded).id,
                          amount |-> unwrap(decoded).amount,
                          sn |-> metrics.submitted + 1] IN
          /\ decoded # None
          /\ http' = [http EXCEPT ![c] = [pc |-> "insert",
                                          request |-> Some(request)]]
          /\ hist' = Append(hist, [id |-> request.id, outcome |-> "running",
                                   recvs |-> 0, writes |-> 0,
                                   posts |-> 0, oks |-> 0,
                                   amount |-> request.amount, enq |-> 0,
                                   deq |-> 0, tag |-> None])
    /\ metrics' = [metrics EXCEPT !.submitted = @ + 1]
    /\ UNCHANGED <<probe, server, locks>>
    /\ UNCHANGED <<calls, config, storage, queue, receiver_dropped, breakers, worker,
                   now, disp>>

\* create_payment: the body does not decode; the handler is about to return
\* StatusCode::BAD_REQUEST without having called submit_payment.
create_payment_decode_fails(c) ==
    /\ server = "serving"
    /\ http[c].pc = "idle"
    /\ \E payload \in Payloads : from_value(payload) = None
    /\ http' = [http EXCEPT ![c].pc = "bad_request"]
    /\ UNCHANGED <<probe, server, locks>>
    /\ UNCHANGED <<calls, config, storage, queue, receiver_dropped, metrics,
                   breakers, worker, now, hist, disp>>

\* create_payment: return Err(StatusCode::BAD_REQUEST).
create_payment_bad_request(c) ==
    /\ http[c].pc = "bad_request"
    /\ http' = [http EXCEPT ![c] = HandlerIdle]
    /\ UNCHANGED <<probe, server, locks>>
    /\ UNCHANGED <<calls, config, storage, queue, receiver_dropped, metrics,
                   breakers, worker, now, hist, disp>>

\* Mutant of submit_payment_insert: the pending Payment is not stored.
submit_payment_insert_skipped(c) ==
    /\ http[c].pc = "insert"
    /\ http' = [http EXCEPT ![c].pc = "send"]
    /\ UNCHANGED <<probe, server, locks>>
    /\ UNCHANGED <<calls, config, storage, queue, receiver_dropped, metrics, breakers,
                   worker, now, hist, disp>>

\* submit_payment: self.storage.insert(request.id, payment) with the pending
\* Payment.
submit_payment_insert(c) ==
    /\ http[c].pc = "insert"
    /\ storage' = storage_insert(storage, pending_payment(unwrap(http[c].request)))
    /\ http' = [http EXCEPT ![c].pc = "send"]
    /\ UNCHANGED <<probe, server, locks>>
    /\ UNCHANGED <<calls, config, queue, receiver_dropped, metrics, breakers, worker,
                   now, hist, disp>>

\* How many submissions have been put into the channel so far.
Enqueued(h) == Cardinality({sn \in DOMAIN h : h[sn].enq > 0})

\* How many requests the worker has received so far.
Dequeued(h) == Cardinality({sn \in DOMAIN h : h[sn].deq > 0})

\* Mutant of channel_push: the message is lost.
channel_push_lost(q, request) == q

\* Mutant of channel_push: the channel hands out the newest message first.
channel_push_in_front(q, request) == <<request>> \o q

\* The channel buffer after Sender::send put a message into it.
channel_push(q, request) == Append(q, request)

\* submit_payment: self.payment_sender.send(request).await, then the return.
\* Sender::send waits while the buffer is full; it fails only when the
\* Receiver is gone, which submit_payment maps to ServiceError::QueueFull.
submit_payment_send(c) ==
    /\ http[c].pc = "send"
    /\ LET request == unwrap(http[c].request)
           sn == request.sn IN
       IF receiver_dropped
       THEN /\ hist' = [hist EXCEPT ![sn].outcome = "QueueFull"]
            /\ UNCHANGED queue
       ELSE /\ Len(queue) < config.queue_buffer_size
            /\ queue' = channel_push(queue, request)
            /\ hist' = [hist EXCEPT ![sn].outcome = "Ok",
                                    ![sn].enq = Enqueued(hist) + 1]
    /\ http' = [http EXCEPT ![c] = HandlerIdle]
    /\ UNCHANGED <<probe, server, locks>>
    /\ UNCHANGED <<calls, config, storage, receiver_dropped, metrics, breakers, worker,
                   now, disp>>

\* ------------------------------------------------------ the worker task

\* Mutant of recv_rest: the received message stays in the buffer.
recv_rest_keeps_head(q) == q

\* The channel buffer after Receiver::recv took its first message.
recv_rest(q) == Tail(q)

\* process_payments_async: receiver.recv().await gave Some(request); the worker
\* enters process_single_payment -> process_payment -> try_processor("default").
process_payments_async_recv ==
    /\ worker.pc = "recv"
    /\ ~receiver_dropped
    /\ \/ /\ queue # <<>>
          /\ LET request == Head(queue) IN
             /\ worker' = [pc |-> "try_processor", request |-> Some(request),
                           processor_type |-> "default", result |-> None]
             /\ hist' = [hist EXCEPT ![request.sn].recvs = @ + 1,
                                     ![request.sn].deq = Dequeued(hist) + 1]
          /\ queue' = recv_rest(queue)
          /\ disp' = [NoDispatch EXCEPT !.before = Some(breakers)]
          /\ UNCHANGED receiver_dropped
       \/ /\ queue = <<>>
          /\ channel_closed
          /\ worker' = [worker EXCEPT !.pc = "exited"]
          /\ receiver_dropped' = TRUE
          /\ UNCHANGED <<queue, hist, disp>>
    /\ UNCHANGED <<probe, server, locks>>
    /\ UNCHANGED <<calls, config, storage, metrics, breakers, http, now>>

\* Mutant of after_none: a failed or skipped upstream is tried again.
after_none_retries(w) ==
    [w EXCEPT !.pc = "try_processor"]

\* Mutant of after_none: when both upstreams gave None the request is dropped
\* without a ledger write or a count.
after_none_drops(w) ==
    IF w.processor_type = "default"
    THEN [w EXCEPT !.pc = "try_processor", !.processor_type = "fallback"]
    ELSE [pc |-> "recv", request |-> None, processor_type |-> None,
          result |-> None]

\* Mutant of after_some: the write and the count are left to a detached task
\* and the worker goes back to receive at once.
after_some_detaches(w, payment) ==
    [pc |-> "recv", request |-> None, processor_type |-> None,
     result |-> None]

\* Mutant of after_some: a success is counted without the ledger write.
after_some_skips_store(w, payment) ==
    [w EXCEPT !.pc = "count", !.result = Some(payment)]

\* Mutant of after_some: the fallback is tried although the default succeeded.
after_some_tries_next(w, payment) ==
    IF w.processor_type = "default"
    THEN [w EXCEPT !.pc = "try_processor", !.processor_type = "fallback",
                   !.result = Some(payment)]
    ELSE [w EXCEPT !.pc = "store", !.result = Some(payment)]

\* process_payment after try_processor(processor_type) returned None: the
\* fallback is tried after the default, and after the fallback the result is
\* None.
after_none(w) ==
    IF w.processor_type = "default"
    THEN [w EXCEPT !.pc = "try_processor", !.processor_type = "fallback"]
    ELSE [w EXCEPT !.pc = "store", !.result = None]

\* process_payment after try_processor(processor_type) returned
\* Some(payment): it returns the payment at once.
after_some(w, payment) ==
    [w EXCEPT !.pc = "store", !.result = Some(payment)]

\* Mutant of can_execute_guard: the guard is bound in try_processor's body and
\* lives until the function returns.
can_execute_guard_kept(task) == Some(task)

\* try_processor: who holds the MutexGuard taken for can_execute once the
\* block around it has ended and send_request is awaited: the guard is a
\* local of that block and is dropped with it.
can_execute_guard(task) == None

\* Mutant of record_guard: the guard taken in the match arm is leaked.
record_guard_leaked(task) == Some(task)

\* try_processor: who holds the MutexGuard taken for record_success or
\* record_failure once the match arm has returned.
record_guard(task) == None

\* try_processor: the locked section around breaker.can_execute(); a breaker
\* that refuses makes try_processor return None without a request.
try_processor_can_execute ==
    /\ worker.pc = "try_processor"
    /\ LET tag == worker.processor_type
           r == can_execute(breakers[tag], now) IN
       /\ locks[tag] = None
       /\ breakers' = [breakers EXCEPT ![tag] = r.self]
       /\ disp' = [disp EXCEPT !.asked = Append(@, tag)]
       /\ worker' = IF r.ret THEN [worker EXCEPT !.pc = "send_request"]
                     ELSE after_none(worker)
       /\ locks' = [locks EXCEPT ![tag] =
                       IF r.ret THEN can_execute_guard("worker") ELSE None]
    /\ UNCHANGED <<probe, server>>
    /\ UNCHANGED <<calls, config, storage, queue, receiver_dropped, metrics, http, now,
                   hist>>

\* try_processor: send_request posted to the upstream and the upstream's
\* answer (or the client timeout) arrived; Ok records a success on the breaker,
\* Err a failure.
try_processor_send_request ==
    /\ worker.pc = "send_request"
    /\ locks[worker.processor_type] = None
    /\ locks' = [locks EXCEPT ![worker.processor_type] = record_guard("worker")]
    /\ \E response \in Responses :
          LET tag == worker.processor_type
              sn == unwrap(worker.request).sn IN
          IF response = "2xx"
          THEN /\ breakers' = [breakers EXCEPT ![tag] = record_success(@)]
               /\ worker' = after_some(worker,
                     processed_payment(processor_url(tag), unwrap(worker.request),
                                       now))
               /\ disp' = [disp EXCEPT !.posts = Append(@, tag),
                                        !.oks = Append(@, tag)]
               /\ hist' = [hist EXCEPT ![sn].posts = @ + 1, ![sn].oks = @ + 1]
          ELSE /\ breakers' = [breakers EXCEPT ![tag] = record_failure(@, now)]
               /\ worker' = after_none(worker)
               /\ disp' = [disp EXCEPT !.posts = Append(@, tag)]
               /\ hist' = [hist EXCEPT ![sn].posts = @ + 1]
    /\ UNCHANGED <<probe, server>>
    /\ UNCHANGED <<calls, config, storage, queue, receiver_dropped, metrics, http,
                   now>>

\* The Payment process_single_payment writes for the result of process_payment.
terminal_payment(w, t) ==
    IF w.result # None THEN unwrap(w.result)
    ELSE failed_payment(unwrap(w.request), t)

\* process_single_payment: self.storage.insert(...) of the processed or the
\* failed Payment.
process_single_payment_store ==
    /\ worker.pc = "store"
    /\ storage' = storage_insert(storage, terminal_payment(worker, now))
    /\ worker' = [worker EXCEPT !.pc = "count"]
    /\ hist' = [hist EXCEPT
                   ![unwrap(worker.request).sn].writes = @ + 1,
                   ![unwrap(worker.request).sn].tag =
                       Some(terminal_payment(worker, now).processor)]
    /\ disp' = [disp EXCEPT !.commits =
                    Append(@, terminal_payment(worker, now).processor)]
    /\ UNCHANGED <<probe, server, locks>>
    /\ UNCHANGED <<calls, config, queue, receiver_dropped, metrics, breakers, http, now>>

\* Mutant of count_result: a success takes one failure back.
count_result_takes_back(m, result) ==
    IF result # None THEN [m EXCEPT !.processed = @ + 1, !.failed = @ - 1]
    ELSE [m EXCEPT !.failed = @ + 1]

\* Mutant of count_result: a success is counted on both counters.
count_result_counts_both(m, result) ==
    IF result # None
    THEN [m EXCEPT !.processed = @ + 1, !.failed = @ + 1]
    ELSE [m EXCEPT !.failed = @ + 1]

\* Mutant of count_result: a failed dispatch is not counted.
count_result_skips_failed(m, result) ==
    IF result # None THEN [m EXCEPT !.processed = @ + 1] ELSE m

\* AtomicMetrics after process_single_payment counted the result.
count_result(m, result) ==
    IF result # None THEN [m EXCEPT !.processed = @ + 1]
    ELSE [m EXCEPT !.failed = @ + 1]

\* process_single_payment: increment_processed / increment_failed, then back
\* to receiver.recv().await.
process_single_payment_count ==
    /\ worker.pc = "count"
    /\ metrics' = count_result(metrics, worker.result)
    /\ worker' = WorkerIdle
    /\ disp' = NoDispatch
    /\ UNCHANGED <<probe, server, locks>>
    /\ UNCHANGED <<calls, config, storage, queue, receiver_dropped, breakers, http, now,
                   hist>>

\* send_request: SystemTime::now().duration_since(UNIX_EPOCH).unwrap() panics
\* the worker task; its Receiver is dropped with the task.
worker_panic ==
    /\ worker.pc = "send_request"
    /\ worker' = [worker EXCEPT !.pc = "panicked"]
    /\ receiver_dropped' = TRUE
    /\ queue' = <<>>
    /\ UNCHANGED <<probe, server, locks>>
    /\ UNCHANGED <<calls, config, storage, metrics, breakers, http, now, hist, disp>>

\* ------------------------------------------------------ health probes

\* health_check: GET {url}/health succeeded with a 2xx status.
health_check(response) == response = "2xx"

\* Mutant of health_check_breakers: the probe's result is recorded on the
\* probed upstream's breaker.
health_check_recorded(b, processor_type, healthy, t) ==
    [b EXCEPT ![processor_type] =
        IF healthy THEN record_success(@) ELSE record_failure(@, t)]

\* Mutant of health_check_breakers: a healthy probe closes the breaker.
health_check_closes(b, processor_type, healthy, t) ==
    [b EXCEPT ![processor_type] = IF healthy THEN record_success(@) ELSE @]

\* The breakers after health_check(processor_type): the function locks and
\* calls neither breaker.
health_check_breakers(b, processor_type, healthy, t) == b

\* The health task: one health_check of its loop returned.
health_task_health_check ==
    /\ server = "serving"
    /\ \E processor_type \in Tags, response \in Responses :
          LET healthy == health_check(response) IN
          /\ probe' = Some([by |-> "health_task",
                            processor_type |-> processor_type,
                            healthy |-> healthy])
          /\ breakers' = health_check_breakers(breakers, processor_type,
                                               healthy, now)
    /\ UNCHANGED <<server, locks>>
    /\ UNCHANGED <<calls, config, storage, queue, receiver_dropped, metrics,
                   http, worker, now, hist, disp>>

\* GET /metrics: get_processor_status(processor) probes the upstream, then
\* reads the state of its breaker for the reply.
get_processor_status ==
    /\ server = "serving"
    /\ \E processor \in Tags, response \in Responses :
          LET healthy == health_check(response) IN
          /\ locks[processor] = None
          /\ probe' = Some([by |-> "get_metrics",
                            processor_type |-> processor,
                            healthy |-> healthy])
          /\ breakers' = health_check_breakers(breakers, processor,
                                               healthy, now)
    /\ UNCHANGED <<server, locks>>
    /\ UNCHANGED <<calls, config, storage, queue, receiver_dropped, metrics,
                   http, worker, now, hist, disp>>

\* ------------------------------------------------------------ shutdown

\* main: axum::serve returned; the router and its state are dropped.
serve_returns ==
    /\ server = "serving"
    /\ server' = "returned"
    /\ UNCHANGED <<probe, locks>>
    /\ UNCHANGED <<calls, config, storage, queue, receiver_dropped, metrics,
                   breakers, http, worker, now, hist, disp>>

\* main returned and the runtime is dropped: every task is cancelled at the
\* await it is suspended in, the worker's future is dropped with its Receiver
\* and its reference to the PaymentService.
runtime_shutdown ==
    /\ server = "returned"
    /\ worker.pc \in {"recv", "send_request"}
    /\ worker' = [worker EXCEPT !.pc = "cancelled"]
    /\ receiver_dropped' = TRUE
    /\ queue' = <<>>
    /\ http' = [c \in Clients |->
                  IF http[c].pc = "send" THEN HandlerIdle ELSE http[c]]
    /\ UNCHANGED <<probe, server, locks>>
    /\ UNCHANGED <<calls, config, storage, metrics, breakers, now, hist, disp>>

\* ---------------------------------------------------------------- time

\* The wall clock advances.
Tick ==
    /\ now < MaxTime
    /\ now' = now + 1
    /\ UNCHANGED <<probe, server, locks>>
    /\ UNCHANGED <<calls, config, storage, queue, receiver_dropped, metrics, breakers,
                   http, worker, hist, disp>>

\* --------------------------------------------- other configurations

\* The process started with CIRCUIT_BREAKER_THRESHOLD set to a value in
\* 1..MaxThreshold.
ThresholdInit ==
    /\ \E threshold \in 1..MaxThreshold :
          config = [DefaultConfig EXCEPT
                       !.circuit_breaker_threshold = threshold]
    /\ Startup

\* The process started with QUEUE_BUFFER_SIZE set to a value in 1..MaxQueue.
QueueInit ==
    /\ \E buffer \in 1..MaxQueue :
          config = [DefaultConfig EXCEPT !.queue_buffer_size = buffer]
    /\ Startup

\* The process started with DEFAULT_PROCESSOR_URL and FALLBACK_PROCESSOR_URL
\* unset, with a default upstream whose URL has no "default" in it, or with a
\* fallback upstream whose URL has.
UrlsInit ==
    /\ config \in
          {DefaultConfig,
           [DefaultConfig EXCEPT
               !.default_processor_url = "http://processor-a:8080"],
           [DefaultConfig EXCEPT
               !.fallback_processor_url = "http://default-backup:8080"]}
    /\ Startup

\* ------------------------------------------ a CircuitBreaker driven alone

\* A process whose default_breaker was built by CircuitBreaker::new with a
\* threshold and a timeout of its own; nothing is submitted.
BreakerInit ==
    /\ \E threshold \in 1..MaxThreshold, timeout_secs \in 0..MaxTime :
          config = [DefaultConfig EXCEPT
                       !.circuit_breaker_threshold = threshold,
                       !.circuit_breaker_timeout_secs = timeout_secs]
    /\ Startup

\* CircuitBreaker::can_execute called on default_breaker.
call_can_execute ==
    /\ Len(calls) < MaxCalls
    /\ LET r == can_execute(breakers["default"], now) IN
       /\ breakers' = [breakers EXCEPT !["default"] = r.self]
       /\ calls' = Append(calls, [op |-> "can_execute", ret |-> r.ret,
                                  at |-> now])
    /\ UNCHANGED <<probe, server, locks>>
    /\ UNCHANGED <<config, storage, queue, receiver_dropped, metrics, http,
                   worker, now, hist, disp>>

\* CircuitBreaker::record_success called on default_breaker.
call_record_success ==
    /\ Len(calls) < MaxCalls
    /\ breakers' = [breakers EXCEPT !["default"] = record_success(@)]
    /\ calls' = Append(calls, [op |-> "record_success", ret |-> TRUE,
                               at |-> now])
    /\ UNCHANGED <<probe, server, locks>>
    /\ UNCHANGED <<config, storage, queue, receiver_dropped, metrics, http,
                   worker, now, hist, disp>>

\* CircuitBreaker::record_failure called on default_breaker.
call_record_failure ==
    /\ Len(calls) < MaxCalls
    /\ breakers' = [breakers EXCEPT !["default"] = record_failure(@, now)]
    /\ calls' = Append(calls, [op |-> "record_failure", ret |-> TRUE,
                               at |-> now])
    /\ UNCHANGED <<probe, server, locks>>
    /\ UNCHANGED <<config, storage, queue, receiver_dropped, metrics, http,
                   worker, now, hist, disp>>

\* ------------------------------------------------------- specifications

Next ==
    \/ \E c \in Clients : create_payment(c)
    \/ \E c \in Clients : submit_payment_insert(c)
    \/ \E c \in Clients : submit_payment_send(c)
    \/ process_payments_async_recv
    \/ try_processor_can_execute
    \/ try_processor_send_request
    \/ process_single_payment_store
    \/ process_single_payment_count
    \/ Tick

\* The running system: the worker task lives as long as the process.
Spec == Init /\ [][Next]_vars

\* One step of the worker task.
WorkerStep ==
    \/ process_payments_async_recv
    \/ try_processor_can_execute
    \/ try_processor_send_request
    \/ process_single_payment_store
    \/ process_single_payment_count

\* The running system with the worker task scheduled fairly and every
\* upstream call returning (reqwest's 5 s timeout bounds send_request).
FairSpec == Spec /\ WF_vars(WorkerStep)

\* The running system under each breaker threshold.
ThresholdSpec == ThresholdInit /\ [][Next]_vars

IntakeNext ==
    \/ Next
    \/ \E c \in Clients : create_payment_decode_fails(c)
    \/ \E c \in Clients : create_payment_bad_request(c)

\* The running system with clients that also post bodies that do not decode.
IntakeSpec == Init /\ [][IntakeNext]_vars

\* The running system under each channel capacity.
QueueSpec == QueueInit /\ [][Next]_vars

\* The running system under each pair of upstream URLs.
UrlsSpec == UrlsInit /\ [][Next]_vars

BreakerNext ==
    \/ call_can_execute
    \/ call_record_success
    \/ call_record_failure
    \/ Tick

\* A CircuitBreaker on which any sequence of its methods is called while the
\* clock advances.
BreakerSpec == BreakerInit /\ [][BreakerNext]_vars

HealthNext ==
    \/ Next
    \/ health_task_health_check
    \/ get_processor_status

\* The running system with the health task and the metrics endpoint probing
\* the upstreams.
HealthSpec == Init /\ [][HealthNext]_vars

ShutdownNext ==
    \/ Next
    \/ serve_returns
    \/ runtime_shutdown

\* The system in which axum::serve can return, with the worker task scheduled
\* fairly and the runtime dropped once main returned.
ShutdownSpec ==
    /\ Init
    /\ [][ShutdownNext]_vars
    /\ WF_vars(WorkerStep)
    /\ WF_vars(runtime_shutdown)

NextAbort ==
    \/ Next
    \/ worker_panic

\* The system in which the worker task can die of the panic in send_request.
SpecAbort == Init /\ [][NextAbort]_vars

\* --------------------------------------------------- history operators

\* The submissions numbered so far.
Submissions == DOMAIN hist

\* The submissions that submit_payment accepted (returned Ok for).
Accepted == {sn \in Submissions : hist[sn].outcome = "Ok"}

\* The submissions that submit_payment rejected with ServiceError::QueueFull.
Rejected == {sn \in Submissions : hist[sn].outcome = "QueueFull"}

\* How often submission sn sits in the channel buffer.
InQueue(sn) == Cardinality({i \in DOMAIN queue : queue[i].sn = sn})

\* The worker holds submission sn (received, not yet counted).
WorkerHolds(sn) == worker.request # None /\ unwrap(worker.request).sn = sn

\* The tags a ledger record has after the dispatch: not pending.
TerminalTags == {"default", "fallback", "failed"}

\* The ledger holds a record of id with a terminal tag.
IsTerminal(s, id) == s[id] # None /\ unwrap(s[id]).processor \in TerminalTags

\* The ledger holds a pending record of id.
IsPending(s, id) == s[id] # None /\ unwrap(s[id]).processor = "pending"

\* process_payment has returned for the request the worker holds.
Dispatched == worker.pc \in {"store", "count"}

\* ----------------------------------------------------------------- C1

\* C1: every accepted request is dispatched by the worker exactly once: it is
\* in the channel buffer once and not yet received, or it was received once
\* and is held by the worker or has had its one terminal ledger write; a
\* submission that was not accepted is never received; and at most one
\* upstream answers 2xx for the request being dispatched.
C1_DispatchedExactlyOnce ==
    /\ \A sn \in Submissions :
          IF sn \in Accepted
          THEN /\ InQueue(sn) + hist[sn].recvs = 1
               /\ hist[sn].recvs = 1 =>
                     (WorkerHolds(sn) /\ worker.pc # "count"
                          /\ hist[sn].writes = 0)
                     \/ hist[sn].writes = 1
          ELSE InQueue(sn) = 0 /\ hist[sn].recvs = 0 /\ hist[sn].writes = 0
    /\ Len(disp.oks) <= 1

\* C1 witness: one accepted request has been dispatched to its terminal write
\* on a 2xx answer while a second accepted request waits in the buffer.
C1_Witness ==
    /\ worker.pc = "count"
    /\ Len(disp.oks) = 1
    /\ \E sn \in Accepted : WorkerHolds(sn) /\ hist[sn].recvs = 1
                               /\ hist[sn].writes = 1
    /\ \E sn \in Accepted : InQueue(sn) = 1

\* ----------------------------------------------------------------- C2

\* C2: when the default breaker permitted execution and the default upstream
\* answered 2xx, the dispatch posted to the default upstream only, consulted
\* the default breaker only, and the fallback breaker is as it was when the
\* request was received.
C2_RouterPreference ==
    (disp.oks # <<>> /\ disp.oks[1] = "default") =>
        /\ disp.posts = <<"default">>
        /\ disp.asked = <<"default">>
        /\ breakers["fallback"] = unwrap(disp.before)["fallback"]

\* C2 witness: a dispatch ended on the default upstream's 2xx while the
\* fallback breaker was Open.
C2_Witness ==
    /\ Dispatched
    /\ disp.oks = <<"default">>
    /\ breakers["fallback"].state = "Open"

\* ----------------------------------------------------------------- C3

\* C3: a dispatch consults default then fallback, each at most once, posts
\* only to an upstream whose breaker it consulted, turns to the fallback only
\* when the default gave no 2xx, and commits exactly one outcome: the tag of
\* the first upstream that answered 2xx, otherwise failed.
C3_DefaultThenFallbackOnce ==
    /\ disp.asked \in {<<>>, <<"default">>, <<"default", "fallback">>}
    /\ disp.posts \in {<<>>, <<"default">>, <<"fallback">>,
                       <<"default", "fallback">>}
    /\ \A i \in DOMAIN disp.posts :
          \E j \in DOMAIN disp.asked : disp.asked[j] = disp.posts[i]
    /\ Len(disp.asked) = 2 => (disp.oks \in {<<>>, <<"fallback">>})
    /\ worker.pc \in {"try_processor", "send_request"} =>
          disp.oks = <<>> /\ disp.commits = <<>>
    /\ worker.pc = "store" =>
          /\ disp.commits = <<>>
          /\ (worker.result # None) = (disp.oks # <<>>)
          /\ worker.result # None =>
                unwrap(worker.result).processor = disp.oks[1]
          /\ worker.result = None => Len(disp.asked) = 2
    /\ worker.pc = "count" =>
          disp.commits = << IF disp.oks # <<>> THEN disp.oks[1] ELSE "failed" >>

\* C3 witness: the default was posted to and failed, the fallback breaker
\* refused, and the dispatch committed failed.
C3_Witness ==
    /\ worker.pc = "count"
    /\ disp.asked = <<"default", "fallback">>
    /\ disp.posts = <<"default">>
    /\ disp.commits = <<"failed">>

\* ----------------------------------------------------------------- C4

\* One step of handler task c inside submit_payment.
HandlerStep(c) == submit_payment_insert(c) \/ submit_payment_send(c)

\* The worker has received nothing yet.
WorkerConsumedNothing ==
    worker.pc = "recv" /\ \A sn \in Submissions : hist[sn].recvs = 0

\* QUEUE_BUFFER_SIZE + 1 submissions were made while the worker consumed
\* nothing, and each has run as far as its own steps take it.
QueueOverfilled ==
    /\ metrics.submitted = QUEUE_BUFFER_SIZE + 1
    /\ WorkerConsumedNothing
    /\ \A c \in Clients : http[c].pc = "idle" \/ ~ENABLED HandlerStep(c)

\* C4: when QUEUE_BUFFER_SIZE + 1 requests are submitted while the worker
\* consumes nothing, exactly QUEUE_BUFFER_SIZE are accepted and exactly one is
\* rejected with QueueFull.
C4_QueueBackpressure ==
    QueueOverfilled =>
        /\ Cardinality(Accepted) = QUEUE_BUFFER_SIZE
        /\ Cardinality(Rejected) = 1

\* ----------------------------------------------------------------- C5

\* C5: a handler task inside submit_payment can always take its next step by
\* itself, whatever the queue holds and wherever the worker is.
C5_SubmitNeverBlocks ==
    \A c \in Clients : http[c].pc # "idle" => ENABLED HandlerStep(c)

\* ----------------------------------------------------------------- C6

\* C6: after QUEUE_BUFFER_SIZE + 1 submissions into a queue nobody drains, the
\* ledger holds pending records for the ids of the accepted submissions and
\* for no other id.
C6_RejectedLeavesNoTrace ==
    QueueOverfilled =>
        /\ storage_keys(storage) = {hist[sn].id : sn \in Accepted}
        /\ \A id \in storage_keys(storage) : IsPending(storage, id)

\* ----------------------------------------------------------------- C7

\* C7: from the moment submit_payment returns Ok for a request on, the ledger
\* holds a record for its id, and get_summary counts a record for every
\* accepted id.
C7_LedgerCompleteness ==
    /\ \A sn \in Accepted : hist[sn].id \in storage_keys(storage)
    /\ get_summary(storage).count >= Cardinality({hist[sn].id : sn \in Accepted})

\* C7 witness: a request has just been accepted (it waits in the buffer, its
\* record is pending) and an earlier accepted request of another id has its
\* terminal record; the summary counts both.
C7_Witness ==
    /\ \E sn \in Accepted : InQueue(sn) = 1 /\ IsPending(storage, hist[sn].id)
    /\ \E sn \in Accepted : hist[sn].writes = 1
                               /\ IsTerminal(storage, hist[sn].id)
    /\ get_summary(storage).count = 2

\* ----------------------------------------------------------------- C8

\* C8 as claimed: a record is created as pending and, once its tag is default,
\* fallback or failed, it never becomes pending again, whatever is submitted.
C8_NeverReopened ==
    [][\A id \in Ids :
          /\ (storage[id] = None /\ storage'[id] # None)
                => IsPending(storage', id)
          /\ IsTerminal(storage, id) => ~IsPending(storage', id)]_vars

\* Handler task c stores the pending record of id in this step.
InsertsPending(c, id) ==
    /\ http[c].pc = "insert"
    /\ unwrap(http[c].request).id = id
    /\ http'[c].pc = "send"

\* C8 amended: a record is created as pending by submit_payment; the worker
\* writes one terminal tag (default, fallback or failed) per dispatched
\* request and never writes pending; a record with a terminal tag becomes
\* pending again only by the insert of a new submit_payment of the same id.
C8_ReopenedOnlyByResubmission ==
    [][/\ \A id \in Ids :
            /\ (storage[id] = None /\ storage'[id] # None)
                  => IsPending(storage', id)
            /\ IsPending(storage', id) /\ storage'[id] # storage[id]
                  => \E c \in Clients : InsertsPending(c, id)
            /\ (worker.pc = "store" /\ worker'.pc = "count"
                  /\ unwrap(worker.request).id = id)
                  => IsTerminal(storage', id)
       /\ \A sn \in DOMAIN hist' : hist'[sn].writes <= 1]_vars

\* C8 witness: the id of a request whose dispatch wrote its terminal record
\* was submitted again, and the record is pending again.
C8_Witness ==
    \E sn1, sn2 \in Submissions :
        /\ sn1 # sn2
        /\ hist[sn1].id = hist[sn2].id
        /\ hist[sn1].writes = 1
        /\ hist[sn2].writes = 0
        /\ IsPending(storage, hist[sn1].id)

\* ----------------------------------------------------------------- C9

\* Submission sn has just had its terminal ledger record written.
TerminalWritten(sn) ==
    /\ WorkerHolds(sn)
    /\ worker.pc = "count"
    /\ IsTerminal(storage, unwrap(worker.request).id)

\* The dispatch of every accepted request has written the ledger.
AllAcceptedWritten == \A sn \in Accepted : hist[sn].writes = 1

\* C9: with the worker scheduled fairly and every upstream call returning, no
\* accepted request stays pending forever: again and again every request
\* accepted so far has had its ledger write, and the step that writes for a
\* request leaves the record of its id with a tag in {default, fallback,
\* failed}.
C9_EventualCompletion ==
    /\ []<>AllAcceptedWritten
    /\ [][\A sn \in DOMAIN hist :
              hist'[sn].writes # hist[sn].writes => TerminalWritten(sn)']_vars

\* C9 witness: with both breakers Open and refusing, an accepted request was
\* dispatched without a POST and its record is failed.
C9_Witness ==
    /\ \E sn \in Accepted : TerminalWritten(sn)
    /\ disp.asked = <<"default", "fallback">>
    /\ disp.posts = <<>>
    /\ \A tag \in Tags : breakers[tag].state = "Open"

\* ---------------------------------------------------------------- C10

\* Queue empty, worker idle, no submission in progress.
Quiescent ==
    /\ queue = <<>>
    /\ worker.pc = "recv"
    /\ \A c \in Clients : http[c].pc = "idle"

\* The number of ledger records still pending.
PendingCount(s) == Cardinality({id \in Ids : IsPending(s, id)})

\* C10: in every quiescent state, submitted = processed + failed + the number
\* of records still pending in the ledger.
C10_CounterConservation ==
    Quiescent =>
        metrics.submitted
            = metrics.processed + metrics.failed + PendingCount(storage)

\* C10 witness: quiescent after two submissions, one processed and one failed.
C10_Witness ==
    /\ Quiescent
    /\ metrics.submitted = 2
    /\ metrics.processed = 1
    /\ metrics.failed = 1

\* ---------------------------------------------------------------- C11

\* C11: no step lowers one of the counters submitted, processed, failed.
C11_CountersMonotone ==
    [][/\ metrics'.submitted >= metrics.submitted
       /\ metrics'.processed >= metrics.processed
       /\ metrics'.failed >= metrics.failed]_vars

\* C11 witness: each of the three counters has been incremented, the failure
\* counted before the success.
C11_Witness ==
    /\ metrics.submitted = 2
    /\ metrics.processed = 1
    /\ metrics.failed = 1
    /\ \E id \in Ids : storage[id] # None
                          /\ unwrap(storage[id]).processor = "failed"
                          /\ unwrap(storage[id]).processed_at = Some(0)
    /\ \E id \in Ids : storage[id] # None
                          /\ unwrap(storage[id]).processor = "default"
                          /\ unwrap(storage[id]).processed_at = Some(1)

\* ---------------------------------------------------------------- C12

\* C12: every ledger record tagged default or fallback has
\* fee = amount / 20, integer division, for its own amount.
C12_FeeLaw ==
    \A id \in storage_keys(storage) :
        LET payment == unwrap(storage[id]) IN
        payment.processor \in {"default", "fallback"} =>
            /\ payment.fee * 20 <= payment.amount
            /\ payment.amount < (payment.fee + 1) * 20

\* C12 witness: a record of amount 30 processed by the fallback carries fee 1
\* and a record of amount 100 processed by the default carries fee 5.
C12_Witness ==
    /\ \E id \in Ids : storage[id] # None
          /\ unwrap(storage[id]).processor = "fallback"
          /\ unwrap(storage[id]).amount = 30
          /\ unwrap(storage[id]).fee = 1
    /\ \E id \in Ids : storage[id] # None
          /\ unwrap(storage[id]).processor = "default"
          /\ unwrap(storage[id]).amount = 100
          /\ unwrap(storage[id]).fee = 5

\* ---------------------------------------------------------------- C13

\* The calls made on the breaker since it was fresh or last reset: those after
\* the last record_success.
RECURSIVE SinceReset(_)
SinceReset(trace) ==
    IF trace = <<>> THEN <<>>
    ELSE LET last == trace[Len(trace)]
             front == SubSeq(trace, 1, Len(trace) - 1) IN
         IF last.op = "record_success" THEN <<>>
         ELSE Append(SinceReset(front), last)

\* The record_failure calls among a sequence of calls.
FailureCalls(trace) ==
    SelectSeq(trace, LAMBDA call : call.op = "record_failure")

\* The number of consecutive record_failure calls on the breaker.
ConsecutiveFailures(trace) == Len(FailureCalls(SinceReset(trace)))

\* The time of the last record_failure call.
LastFailureAt(trace) ==
    FailureCalls(trace)[Len(FailureCalls(trace))].at

\* C13: a fresh breaker with threshold T stays Closed below T consecutive
\* record_failure calls and is Open right after the T-th; a can_execute on an
\* Open breaker returns false and leaves it Open while less than the timeout
\* has passed since the last record_failure, and once the timeout has passed
\* it returns true and leaves the breaker HalfOpen.
C13_BreakerTrip ==
    /\ [](LET b == breakers["default"] IN
          /\ ConsecutiveFailures(calls) < b.threshold => b.state = "Closed"
          /\ ConsecutiveFailures(calls) >= b.threshold =>
                b.state \in {"Open", "HalfOpen"}
          /\ (calls # <<>> /\ calls[Len(calls)].op = "record_failure"
                 /\ ConsecutiveFailures(calls) >= b.threshold) =>
                b.state = "Open")
    /\ [][(/\ Len(calls') = Len(calls) + 1
           /\ calls'[Len(calls')].op = "can_execute"
           /\ breakers["default"].state = "Open") =>
             LET b == breakers["default"]
                 due == now - LastFailureAt(calls) >= b.timeout IN
             /\ calls'[Len(calls')].ret = due
             /\ breakers'["default"] =
                   IF due THEN [b EXCEPT !.state = "HalfOpen"] ELSE b]_vars

\* C13 witness: a breaker with threshold 2 and timeout 1 took two failures,
\* refused, and after the timeout allowed the next call and is HalfOpen.
C13_Witness ==
    /\ breakers["default"].threshold = 2
    /\ breakers["default"].timeout = 1
    /\ Len(calls) = 4
    /\ [i \in 1..4 |-> <<calls[i].op, calls[i].ret>>] =
          << <<"record_failure", TRUE>>, <<"record_failure", TRUE>>,
             <<"can_execute", FALSE>>, <<"can_execute", TRUE>> >>
    /\ breakers["default"].state = "HalfOpen"

\* ---------------------------------------------------------------- C14

\* C14: whatever the breaker's state and failure_count were, right after a
\* record_success it is Closed with failure_count 0 and no last failure time.
C14_BreakerReset ==
    [][(/\ Len(calls') = Len(calls) + 1
        /\ calls'[Len(calls')].op = "record_success") =>
          /\ breakers'["default"].state = "Closed"
          /\ breakers'["default"].failure_count = 0
          /\ breakers'["default"].last_failure_time = None]_vars

\* C14 witness: record_success was called on an Open breaker that had counted
\* two failures, and the breaker is Closed with failure_count 0.
C14_Witness ==
    /\ Len(calls) = 3
    /\ calls[1].op = "record_failure"
    /\ calls[2].op = "record_failure"
    /\ calls[3].op = "record_success"
    /\ breakers["default"].threshold = 1
    /\ breakers["default"].state = "Closed"
    /\ breakers["default"].failure_count = 0

\* ---------------------------------------------------------------- C15

\* The POST of the dispatch in progress to upstream tag is answered with a
\* failure in this step.
PostFails(tag) ==
    /\ worker.pc = "send_request"
    /\ worker.processor_type = tag
    /\ disp'.posts = Append(disp.posts, tag)
    /\ disp'.oks = disp.oks

\* C15: when the request let through by a HalfOpen breaker fails, the breaker
\* is Open after the step, its failure_count is one higher and its timeout
\* runs from the time of that failure.
C15_HalfOpenFailureReopens ==
    [][\A tag \in Tags :
          (PostFails(tag) /\ breakers[tag].state = "HalfOpen") =>
              /\ breakers'[tag].state = "Open"
              /\ breakers'[tag].failure_count = breakers[tag].failure_count + 1
              /\ breakers'[tag].last_failure_time = Some(now)]_vars

\* C15 witness: the default breaker was Open when the request was received,
\* let the request through after its timeout, the POST failed at time 1, and
\* the breaker is Open again with its second failure.
C15_Witness ==
    /\ disp.before # None
    /\ unwrap(disp.before)["default"].state = "Open"
    /\ unwrap(disp.before)["default"].last_failure_time = Some(0)
    /\ disp.posts = <<"default">>
    /\ disp.oks = <<>>
    /\ breakers["default"].state = "Open"
    /\ breakers["default"].failure_count = 2
    /\ breakers["default"].last_failure_time = Some(1)

\* ---------------------------------------------------------------- C16

\* Exactly T = circuit_breaker_threshold requests were submitted to the
\* freshly started process, all have been dispatched and counted, and every
\* POST of their dispatches was answered without a 2xx.
ThresholdDispatchesFailed ==
    /\ metrics.submitted = config.circuit_breaker_threshold
    /\ Quiescent
    /\ \A sn \in Submissions : hist[sn].writes = 1 /\ hist[sn].oks = 0

\* C16: after T requests were dispatched from fresh breakers of threshold T
\* while no POST was answered 2xx, every dispatch posted to both upstreams,
\* both breakers are Open with failure_count T, failed is T, processed is 0
\* and every ledger record, one per submitted id, is tagged failed with fee 0.
C16_AllFailTripsBoth ==
    ThresholdDispatchesFailed =>
        LET T == config.circuit_breaker_threshold IN
        /\ \A sn \in Submissions : hist[sn].posts = 2
        /\ \A tag \in Tags : /\ breakers[tag].state = "Open"
                              /\ breakers[tag].failure_count = T
        /\ metrics.failed = T
        /\ metrics.processed = 0
        /\ storage_keys(storage) = {hist[sn].id : sn \in Submissions}
        /\ \A id \in storage_keys(storage) :
              /\ unwrap(storage[id]).processor = "failed"
              /\ unwrap(storage[id]).fee = 0
        /\ get_summary(storage).count_failed
              = Cardinality(storage_keys(storage))

\* C16 witness: with threshold 2, two requests of different ids were
\* dispatched, all four POSTs failed, and two records are in the ledger.
C16_Witness ==
    /\ config.circuit_breaker_threshold = 2
    /\ ThresholdDispatchesFailed
    /\ \A sn \in Submissions : hist[sn].posts = 2
    /\ Cardinality(storage_keys(storage)) = 2

\* ---------------------------------------------------------------- C17

\* Breaker b is Open and less than its timeout has passed since its last
\* failure at time t.
Refusing(b, t) ==
    /\ b.state = "Open"
    /\ b.last_failure_time # None
    /\ t - unwrap(b.last_failure_time) < b.timeout

\* Both breakers were Open when the request in dispatch was received, and
\* neither timeout has elapsed up to now.
BothRefusing ==
    /\ disp.before # None
    /\ \A tag \in Tags : Refusing(unwrap(disp.before)[tag], now)

\* The worker's ledger write happens in this step.
StoreStep == worker.pc = "store" /\ worker'.pc = "count"

\* The worker's counter increment happens in this step.
CountStep == worker.pc = "count" /\ worker'.pc = "recv"

\* C17: a dispatch during which both breakers are Open with their timeouts
\* not elapsed consults both breakers, issues no POST, leaves both breakers
\* exactly as they were, writes the request's record as failed with fee 0 and
\* increments failed by one, processed not at all.
C17_BothOpenSkipsUpstreams ==
    /\ []((Dispatched /\ BothRefusing) =>
            /\ disp.asked = <<"default", "fallback">>
            /\ disp.posts = <<>>
            /\ worker.result = None
            /\ breakers = unwrap(disp.before))
    /\ [][BothRefusing =>
            /\ StoreStep =>
                  LET payment == unwrap(storage'[unwrap(worker.request).id]) IN
                  /\ payment.processor = "failed"
                  /\ payment.fee = 0
                  /\ payment.amount = unwrap(worker.request).amount
            /\ CountStep =>
                  /\ metrics'.failed = metrics.failed + 1
                  /\ metrics'.processed = metrics.processed]_vars

\* C17 witness: the second request was dispatched while both breakers were
\* Open and refusing; its failed record is written and not yet counted.
C17_Witness ==
    /\ worker.pc = "count"
    /\ BothRefusing
    /\ disp.posts = <<>>
    /\ disp.commits = <<"failed">>
    /\ metrics.failed = 1
    /\ hist[unwrap(worker.request).sn].posts = 0

\* ---------------------------------------------------------------- C18

\* C18: the Payment a dispatch got from a 2xx carries the key of the upstream
\* that answered, default or fallback, whatever the two URLs are; and when the
\* default's POST failed and the fallback's was answered 2xx the Payment is
\* tagged fallback and the default breaker's failure_count is one higher than
\* when the request was received.
C18_TagNamesUpstream ==
    /\ (Dispatched /\ disp.oks # <<>>) =>
          unwrap(worker.result).processor = disp.oks[1]
    /\ (Dispatched /\ disp.posts = <<"default", "fallback">>
           /\ disp.oks = <<"fallback">>) =>
          /\ unwrap(worker.result).processor = "fallback"
          /\ breakers["default"].failure_count
                = unwrap(disp.before)["default"].failure_count + 1

\* ---------------------------------------------------------------- C19

\* The default breaker is consulted in this step while it is Open and its
\* timeout has elapsed.
DefaultProbeDue ==
    /\ worker.pc = "try_processor"
    /\ worker.processor_type = "default"
    /\ breakers["default"].state = "Open"
    /\ breakers["default"].last_failure_time # None
    /\ now - unwrap(breakers["default"].last_failure_time)
          >= breakers["default"].timeout

\* The dispatch in progress found the default breaker Open and got a 2xx
\* from the default upstream.
RecoveredOnDefault ==
    /\ Dispatched
    /\ unwrap(disp.before)["default"].state = "Open"
    /\ disp.oks = <<"default">>

\* C19: an Open default breaker whose timeout has elapsed lets the next
\* request through to the default upstream as HalfOpen; when that POST is
\* answered 2xx the default breaker is Closed with failure_count 0, the
\* fallback was neither consulted nor posted to, the record is written as
\* default and processed is incremented.
C19_BreakerRecovery ==
    /\ [](RecoveredOnDefault =>
            /\ disp.asked = <<"default">>
            /\ disp.posts = <<"default">>
            /\ breakers["default"].state = "Closed"
            /\ breakers["default"].failure_count = 0
            /\ breakers["fallback"] = unwrap(disp.before)["fallback"]
            /\ unwrap(worker.result).processor = "default")
    /\ [][/\ DefaultProbeDue =>
                /\ worker'.pc = "send_request"
                /\ worker'.processor_type = "default"
                /\ breakers'["default"].state = "HalfOpen"
          /\ RecoveredOnDefault =>
                /\ StoreStep =>
                      unwrap(storage'[unwrap(worker.request).id]).processor
                         = "default"
                /\ CountStep =>
                      /\ metrics'.processed = metrics.processed + 1
                      /\ metrics'.failed = metrics.failed]_vars

\* C19 witness: the default breaker opened at time 0, the next request was
\* received after the timeout, posted to default only and answered 2xx; its
\* record is written and the breaker is Closed.
C19_Witness ==
    /\ worker.pc = "count"
    /\ RecoveredOnDefault
    /\ unwrap(disp.before)["default"].failure_count >= 1
    /\ breakers["default"].state = "Closed"
    /\ disp.commits = <<"default">>

\* ---------------------------------------------------------------- C20

\* The number of terminal ledger writes performed so far.
RECURSIVE TerminalWrites(_)
TerminalWrites(h) ==
    IF h = <<>> THEN 0
    ELSE h[Len(h)].writes + TerminalWrites(SubSeq(h, 1, Len(h) - 1))

\* C20: the worker writes the terminal record of a request, then counts it,
\* then receives the next: the writes are one ahead of processed + failed
\* exactly while the worker stands between its write and its count, they are
\* equal in every other state, so processed + failed never exceeds the writes
\* and the worker receives only when every write has been counted.
C20_WriteBeforeCount ==
    /\ metrics.processed + metrics.failed <= TerminalWrites(hist)
    /\ TerminalWrites(hist) - (metrics.processed + metrics.failed)
          = IF worker.pc = "count" THEN 1 ELSE 0

\* C20 witness: the second request's record is written and not yet counted.
C20_Witness ==
    /\ worker.pc = "count"
    /\ TerminalWrites(hist) = 2
    /\ metrics.processed + metrics.failed = 1

\* ---------------------------------------------------------------- C21

\* The ids whose ledger record carries one of the given tags.
Tagged(s, tags) ==
    {id \in storage_keys(s) : unwrap(s[id]).processor \in tags}

\* C21: get_summary counts every record in count, the records tagged default
\* or fallback in count_processed, the records tagged failed in count_failed
\* and the pending records nowhere else, so that count is the sum of
\* count_processed, count_failed and the number of pending records.
C21_SummaryCounts ==
    LET summary == get_summary(storage) IN
    /\ summary.count = Cardinality(storage_keys(storage))
    /\ summary.count_processed
          = Cardinality(Tagged(storage, {"default", "fallback"}))
    /\ summary.count_failed = Cardinality(Tagged(storage, {"failed"}))
    /\ summary.count = summary.count_processed + summary.count_failed
                          + Cardinality(Tagged(storage, {"pending"}))

\* C21 witness: the ledger holds one pending and one failed record.
C21_Witness ==
    /\ Cardinality(Tagged(storage, {"pending"})) = 1
    /\ Cardinality(Tagged(storage, {"failed"})) = 1
    /\ get_summary(storage).count = 2
    /\ get_summary(storage).count_failed = 1
    /\ get_summary(storage).count_processed = 0

\* ---------------------------------------------------------------- C22

\* The sum of the submitted amounts.
RECURSIVE SumAmounts(_)
SumAmounts(h) ==
    IF h = <<>> THEN 0
    ELSE h[Len(h)].amount + SumAmounts(SubSeq(h, 1, Len(h) - 1))

\* The sum of amount / 20 over the submissions.
RECURSIVE SumFees(_)
SumFees(h) ==
    IF h = <<>> THEN 0
    ELSE (h[Len(h)].amount \div 20) + SumFees(SubSeq(h, 1, Len(h) - 1))

\* Requests with distinct ids were submitted, the worker has drained the
\* queue, and each dispatch made one POST, which was answered 2xx.
HappyPathDrained ==
    /\ hist # <<>>
    /\ Quiescent
    /\ \A sn1, sn2 \in Submissions : sn1 # sn2 => hist[sn1].id # hist[sn2].id
    /\ \A sn \in Submissions :
          hist[sn].writes = 1 /\ hist[sn].posts = 1 /\ hist[sn].oks = 1

\* C22: after n requests with distinct ids were dispatched with a 2xx from
\* the default upstream for every POST, the summary reports the sum of the
\* amounts, the sum of amount / 20 per request, count = count_processed = n
\* and count_failed = 0.
C22_HappyPathTotals ==
    HappyPathDrained =>
        LET summary == get_summary(storage) IN
        /\ \A sn \in Submissions : hist[sn].tag = Some("default")
        /\ summary.total_amount_cents = SumAmounts(hist)
        /\ summary.total_fee_cents = SumFees(hist)
        /\ summary.count = Len(hist)
        /\ summary.count_processed = Len(hist)
        /\ summary.count_failed = 0

\* C22 witness: amounts 30 and 100 under two ids were processed by the
\* default upstream; the totals are 130 and 1 + 5.
C22_Witness ==
    /\ HappyPathDrained
    /\ Len(hist) = 2
    /\ get_summary(storage).total_amount_cents = 130
    /\ get_summary(storage).total_fee_cents = 6

\* ---------------------------------------------------------------- C23

\* The submissions of an id.
SubmissionsOf(id) == {sn \in Submissions : hist[sn].id = id}

\* Among the submissions of an id, the one the worker received last.
LastDispatched(id) ==
    CHOOSE sn \in SubmissionsOf(id) :
        \A other \in SubmissionsOf(id) : hist[other].deq <= hist[sn].deq

\* The id was submitted twice and both dispatches have completed.
SubmittedTwice(id) ==
    /\ Quiescent
    /\ Cardinality(SubmissionsOf(id)) = 2
    /\ \A sn \in SubmissionsOf(id) : hist[sn].writes = 1

\* C23: when an id was submitted twice and both dispatches have completed,
\* the one ledger record of the id carries the amount and the tag of the
\* submission dispatched second, and both submissions are counted: each has
\* raised submitted by one and processed + failed by one.
C23_LastWriterWins ==
    \A id \in Ids :
        SubmittedTwice(id) =>
            /\ storage[id] # None
            /\ unwrap(storage[id]).amount = hist[LastDispatched(id)].amount
            /\ Some(unwrap(storage[id]).processor)
                  = hist[LastDispatched(id)].tag
            /\ metrics.submitted >= 2
            /\ metrics.submitted = Len(hist)
            /\ metrics.processed + metrics.failed
                  = Cardinality({sn \in Submissions : hist[sn].writes = 1})
            /\ get_summary(storage).count
                  = Cardinality({hist[sn].id : sn \in Submissions})

\* C23 witness: id a was submitted with amount 30 and then with amount 100;
\* the first dispatch was processed by default, the second failed; the record
\* holds amount 100 and the tag failed.
C23_Witness ==
    /\ SubmittedTwice("a")
    /\ hist[1].amount = 30 /\ hist[1].deq = 1 /\ hist[1].tag = Some("default")
    /\ hist[2].amount = 100 /\ hist[2].deq = 2 /\ hist[2].tag = Some("failed")
    /\ unwrap(storage["a"]).amount = 100
    /\ unwrap(storage["a"]).processor = "failed"
    /\ metrics.processed = 1
    /\ metrics.failed = 1

\* ---------------------------------------------------------------- C28

\* C28: the channel buffer never holds more than queue_buffer_size requests;
\* the requests in it stand in the order of their sends, behind those already
\* received; and the worker receives, hence dispatches, in the order of the
\* sends.
C28_BoundedFifo ==
    /\ Len(queue) <= config.queue_buffer_size
    /\ \A i \in DOMAIN queue :
          hist[queue[i].sn].enq = Dequeued(hist) + i
    /\ \A sn \in Submissions :
          hist[sn].deq > 0 => hist[sn].deq = hist[sn].enq

\* C28 witness: with capacity 2 the submission counted first was sent second;
\* the worker has received the one sent first and the other waits.
C28_Witness ==
    /\ config.queue_buffer_size = 2
    /\ Len(hist) = 2
    /\ hist[2].enq = 1 /\ hist[2].deq = 1
    /\ hist[1].enq = 2 /\ hist[1].deq = 0
    /\ InQueue(1) = 1

\* ---------------------------------------------------------------- C29

\* C29: every request in the channel buffer and the request the worker is
\* dispatching has a ledger record under its id.
C29_PendingBeforeEnqueue ==
    /\ \A i \in DOMAIN queue : storage[queue[i].id] # None
    /\ worker.request # None => storage[unwrap(worker.request).id] # None

\* C29 witness: one request waits in the buffer with its pending record while
\* the worker is posting another request, of another id, to an upstream.
C29_Witness ==
    /\ Len(queue) = 1
    /\ IsPending(storage, queue[1].id)
    /\ worker.pc = "send_request"
    /\ unwrap(worker.request).id # queue[1].id
    /\ IsPending(storage, unwrap(worker.request).id)

\* ---------------------------------------------------------------- C30

\* C30: every ledger record is tagged pending, default, fallback or failed,
\* has processed_at exactly when its tag is default, fallback or failed, and
\* has fee 0 when its tag is pending or failed.
C30_RecordWellFormed ==
    \A id \in storage_keys(storage) :
        LET payment == unwrap(storage[id]) IN
        /\ payment.id = id
        /\ payment.processor \in TerminalTags \cup {"pending"}
        /\ (payment.processed_at # None) <=> (payment.processor \in TerminalTags)
        /\ payment.processor \in {"pending", "failed"} => payment.fee = 0

\* C30 witness: the ledger holds a failed record with fee 0 and a timestamp
\* next to a pending record without one.
C30_Witness ==
    \E id1, id2 \in storage_keys(storage) :
        /\ unwrap(storage[id1]).processor = "failed"
        /\ unwrap(storage[id1]).fee = 0
        /\ unwrap(storage[id1]).processed_at = Some(1)
        /\ unwrap(storage[id2]).processor = "pending"
        /\ unwrap(storage[id2]).processed_at = None

\* ---------------------------------------------------------------- C24

\* Handler task c returns from submit_payment for submission sn in this step.
Returns(c, sn) ==
    /\ http[c].pc = "send"
    /\ unwrap(http[c].request).sn = sn
    /\ http'[c].pc = "idle"

\* C24: what POST /payments answers is decided by the handler's own send and
\* by the channel alone: whether the send can complete depends only on the
\* room in the buffer and on the Receiver being alive, its result only on the
\* Receiver being alive, and no step of the worker, whatever the upstreams
\* answered, changes the result of a submission or moves a handler; with the
\* worker alive every answer is 200. A dispatch that got no 2xx is written to
\* the ledger as failed while its submission stays answered with 200.
C24_UpstreamNotSurfaced ==
    /\ [](\A c \in Clients :
            http[c].pc = "send" =>
               (ENABLED submit_payment_send(c)
                  <=> (receiver_dropped
                         \/ Len(queue) < config.queue_buffer_size)))
    /\ [](\A sn \in Submissions :
            /\ hist[sn].outcome \in {"running", "Ok"}
            /\ hist[sn].recvs > 0 =>
                  status_code(hist[sn].outcome) = 200
            /\ (hist[sn].writes = 1 /\ hist[sn].oks = 0) =>
                  hist[sn].tag = Some("failed"))
    /\ [][/\ \A sn \in Submissions :
               hist'[sn].outcome # hist[sn].outcome =>
                   /\ \E c \in Clients : Returns(c, sn)
                   /\ hist'[sn].outcome =
                         IF receiver_dropped THEN "QueueFull" ELSE "Ok"
          /\ (worker' # worker \/ breakers' # breakers) =>
                   /\ http' = http
                   /\ \A sn \in Submissions :
                         hist'[sn].outcome = hist[sn].outcome]_vars

\* C24 witness: a submission answered with 200 was dispatched, both upstreams
\* were posted to and failed, and its record is failed.
C24_Witness ==
    \E sn \in Accepted :
        /\ status_code(hist[sn].outcome) = 200
        /\ hist[sn].posts = 2
        /\ hist[sn].oks = 0
        /\ hist[sn].tag = Some("failed")
        /\ unwrap(storage[hist[sn].id]).processor = "failed"

\* ---------------------------------------------------------------- C25

\* The channel buffer is full and its Receiver is alive.
QueueFull ==
    ~receiver_dropped /\ Len(queue) >= config.queue_buffer_size

\* C25: POST /payments is answered with a 2xx status when submit_payment
\* accepted, with 503 when it found the queue full and with 500 on another
\* failure; a handler whose body did not decode answers 400 having changed
\* neither the submitted counter nor the ledger nor the queue; and a handler
\* that reaches the send while the queue is full answers, with 503, without
\* waiting for the worker.
C25_IntakeStatusCodes ==
    /\ \A sn \in Accepted : status_code(hist[sn].outcome) \in 200..299
    /\ \A sn \in Rejected : status_code(hist[sn].outcome) = 503
    /\ status_code("ProcessingError") = 500
    /\ \A c \in Clients :
          http[c].pc = "bad_request" =>
              /\ http[c].request = None
              /\ ENABLED create_payment_bad_request(c)
    /\ \A c \in Clients :
          (http[c].pc = "send" /\ QueueFull) =>
              ENABLED submit_payment_send(c)

\* ---------------------------------------------------------------- C26

\* C26: a step in which a health_check returns, made by the health task or
\* for GET /metrics and whatever it returned, leaves both breakers as they
\* were: state, failure_count and last_failure_time.
C26_ProbesLeaveBreakers ==
    [][probe' # probe =>
          \A tag \in Tags :
              /\ breakers'[tag].state = breakers[tag].state
              /\ breakers'[tag].failure_count = breakers[tag].failure_count
              /\ breakers'[tag].last_failure_time
                    = breakers[tag].last_failure_time]_vars

\* C26 witness: a probe of the default upstream came back healthy while its
\* breaker was Open with a failure recorded, and the fallback's was Closed.
C26_Witness ==
    /\ probe # None
    /\ unwrap(probe).processor_type = "default"
    /\ unwrap(probe).healthy
    /\ breakers["default"].state = "Open"
    /\ breakers["default"].failure_count > 0
    /\ breakers["default"].last_failure_time # None
    /\ breakers["fallback"].state = "Closed"

\* ---------------------------------------------------------------- C27

\* Every request the handlers enqueued has its terminal record.
EnqueuedAllDispatched ==
    \A sn \in Submissions : hist[sn].enq > 0 => hist[sn].writes = 1

\* C27: once the channel is closed the worker dispatches what was enqueued
\* and leaves its loop, it never leaves the loop while the channel is open,
\* and a shutdown closes the channel: after axum::serve returned the worker
\* leaves its loop with every enqueued request dispatched.
C27_WorkerExitsOnClose ==
    /\ [](worker.pc = "exited" => channel_closed)
    /\ (channel_closed /\ ~receiver_dropped)
          ~> (worker.pc = "exited" /\ EnqueuedAllDispatched)
    /\ (server = "returned")
          ~> (worker.pc = "exited" /\ EnqueuedAllDispatched)

\* ---------------------------------------------------------------- C31

\* C31: a request the worker received gets exactly one terminal ledger write
\* and one increment of one counter: the write carries the tag of the upstream
\* that answered 2xx, or failed with fee 0 when none did; the count that
\* follows adds 1 to processed in the first case and 1 to failed in the
\* second and nothing else; processed and failed change in no other step, and
\* no step of the worker changes submitted.
C31_OneWriteOneCount ==
    /\ [](\A sn \in Submissions :
            /\ hist[sn].recvs <= 1
            /\ hist[sn].writes <= hist[sn].recvs
            /\ (hist[sn].recvs = 1 /\ ~WorkerHolds(sn)) => hist[sn].writes = 1)
    /\ [][/\ StoreStep =>
               LET sn == unwrap(worker.request).sn
                   rec == unwrap(storage'[hist[sn].id]) IN
               /\ hist[sn].writes = 0
               /\ hist'[sn].writes = 1
               /\ Len(disp.oks) <= 1
               /\ IF disp.oks # <<>>
                  THEN rec.processor = disp.oks[1]
                  ELSE rec.processor = "failed" /\ rec.fee = 0
               /\ metrics' = metrics
          /\ CountStep =>
               LET sn == unwrap(worker.request).sn IN
               /\ hist[sn].writes = 1
               /\ metrics' =
                     IF hist[sn].oks > 0
                     THEN [metrics EXCEPT !.processed = @ + 1]
                     ELSE [metrics EXCEPT !.failed = @ + 1]
          /\ (\/ metrics'.processed # metrics.processed
              \/ metrics'.failed # metrics.failed) => CountStep
          /\ worker' # worker =>
               metrics'.submitted = metrics.submitted]_vars

\* C31 witness: two requests were dispatched and counted, the first answered
\* 2xx by the fallback after the default failed, the second by no upstream.
C31_Witness ==
    /\ Len(hist) = 2
    /\ worker.pc = "recv"
    /\ hist[1].writes = 1 /\ hist[1].tag = Some("fallback")
    /\ hist[2].writes = 1 /\ hist[2].tag = Some("failed")
    /\ metrics = [submitted |-> 2, processed |-> 1, failed |-> 1]

\* ---------------------------------------------------------------- C32

\* This step is a call of can_execute on default_breaker.
CanExecuteCalled ==
    /\ Len(calls') = Len(calls) + 1
    /\ calls'[Len(calls')].op = "can_execute"

\* Breaker b is Open and its timeout has elapsed at time t.
TimeoutElapsed(b, t) ==
    /\ b.state = "Open"
    /\ b.last_failure_time # None
    /\ t - unwrap(b.last_failure_time) >= b.timeout

\* C32: a call of can_execute never changes failure_count or
\* last_failure_time; on a Closed or HalfOpen breaker it returns true and
\* changes nothing; on an Open breaker whose timeout has not elapsed it
\* returns false and changes nothing; the only change it ever makes is the
\* state going from Open to HalfOpen, with true returned, once the timeout
\* has elapsed.
C32_MayExecuteReadOnly ==
    [][CanExecuteCalled =>
          LET b == breakers["default"]
              after == breakers'["default"]
              ret == calls'[Len(calls')].ret IN
          /\ after.failure_count = b.failure_count
          /\ after.last_failure_time = b.last_failure_time
          /\ after.threshold = b.threshold
          /\ after.timeout = b.timeout
          /\ b.state \in {"Closed", "HalfOpen"} => (ret /\ after = b)
          /\ (b.state = "Open" /\ ~TimeoutElapsed(b, now))
                => (~ret /\ after = b)
          /\ TimeoutElapsed(b, now) => (ret /\ after.state = "HalfOpen")
          /\ after # b => (TimeoutElapsed(b, now) /\ after.state = "HalfOpen")
          /\ breakers'["fallback"] = breakers["fallback"]]_vars

\* C32 witness: can_execute was called on a Closed breaker, then refused on
\* the Open breaker, and was then called again once the timeout had elapsed,
\* which left the breaker HalfOpen with its count and failure time kept.
C32_Witness ==
    /\ Len(calls) = 4
    /\ calls[1].op = "can_execute" /\ calls[1].ret
    /\ calls[2].op = "record_failure"
    /\ calls[3].op = "can_execute" /\ ~calls[3].ret
    /\ calls[4].op = "can_execute" /\ calls[4].ret
    /\ calls[4].at > calls[3].at
    /\ breakers["default"].state = "HalfOpen"
    /\ breakers["default"].failure_count = 1
    /\ breakers["default"].last_failure_time = Some(calls[2].at)

\* ---------------------------------------------------------------- C33

\* C33: failure_count is the number of record_failure calls since the last
\* record_success, so a record_success restarts the count; while that number
\* is below the threshold the breaker is Closed and can_execute returns true
\* without changing it; and the breaker leaves Closed only in a
\* record_failure call that is the threshold-th since the last
\* record_success, which leaves it Open.
C33_BelowThresholdStaysClosed ==
    /\ [](LET b == breakers["default"] IN
          /\ b.failure_count = ConsecutiveFailures(calls)
          /\ b.failure_count < b.threshold =>
                /\ b.state = "Closed"
                /\ can_execute(b, now) = [ret |-> TRUE, self |-> b])
    /\ [][(/\ breakers["default"].state = "Closed"
           /\ breakers'["default"].state # "Closed") =>
              /\ Len(calls') = Len(calls) + 1
              /\ calls'[Len(calls')].op = "record_failure"
              /\ ConsecutiveFailures(calls')
                    = breakers["default"].threshold
              /\ breakers'["default"].state = "Open"]_vars

\* C33 witness: a breaker with threshold 2 took a failure, a success and a
\* failure: two failures in all, one since the success, and it is Closed and
\* has just permitted an execution.
C33_Witness ==
    /\ breakers["default"].threshold = 2
    /\ Len(calls) = 4
    /\ calls[1].op = "record_failure"
    /\ calls[2].op = "record_success"
    /\ calls[3].op = "record_failure"
    /\ calls[4].op = "can_execute" /\ calls[4].ret
    /\ breakers["default"].state = "Closed"
    /\ breakers["default"].failure_count = 1

\* ---------------------------------------------------------------- C34

\* The tasks suspended at an await: the worker in receiver.recv() or in
\* send_request, a handler in payment_sender.send().
Suspended ==
    (IF worker.pc \in {"recv", "send_request"} THEN {"worker"} ELSE {})
      \cup {c \in Clients : http[c].pc = "send"}

\* C34: in every reachable state no task suspended at an await holds the
\* MutexGuard of a breaker, and while the worker awaits an upstream's answer
\* both mutexes are free, so the status read of GET /metrics can take its
\* lock at once.
C34_NoLockAcrossAwait ==
    /\ \A tag \in Tags : \A task \in Suspended : locks[tag] # Some(task)
    /\ worker.pc = "send_request" =>
          /\ \A tag \in Tags : locks[tag] = None
          /\ ENABLED get_processor_status

\* C34 witness: the worker awaits the fallback upstream's answer after the
\* default's POST failed: it has been through the locked sections of
\* can_execute and record_failure on the default breaker and of can_execute
\* on the fallback breaker.
C34_Witness ==
    /\ worker.pc = "send_request"
    /\ worker.processor_type = "fallback"
    /\ disp.asked = <<"default", "fallback">>
    /\ disp.posts = <<"default">>
    /\ breakers["default"].state = "Open"
    /\ \A tag \in Tags : locks[tag] = None

\* ---------------------------------------------------------------- C35

\* The submissions in dispatch: received by the worker, terminal record not
\* yet written.
InDispatch == {sn \in Submissions : hist[sn].recvs > hist[sn].writes}

\* The submissions whose upstream POST is in flight.
PostInFlight ==
    {sn \in InDispatch : WorkerHolds(sn) /\ worker.pc = "send_request"}

\* C35: whatever the handlers are doing, at most one request is in dispatch,
\* it is the one the worker holds, at most one upstream POST is in flight,
\* and the worker receives the next request only when none is in dispatch.
C35_OneAtATime ==
    /\ [](/\ Cardinality(InDispatch) <= 1
          /\ Cardinality(PostInFlight) <= 1
          /\ \A sn \in InDispatch : WorkerHolds(sn)
          /\ worker.pc = "recv" => InDispatch = {})
    /\ [][(\E sn \in Submissions : hist'[sn].recvs # hist[sn].recvs) =>
              /\ InDispatch = {}
              /\ worker.pc = "recv"]_vars

\* C35 witness: two submissions were accepted; the POST of the first is in
\* flight while the second waits in the buffer.
C35_Witness ==
    /\ worker.pc = "send_request"
    /\ PostInFlight = {1}
    /\ Len(queue) = 1
    /\ queue[1].sn = 2
    /\ Accepted = {1, 2}

\* ---------------------------------------------------------------- C36

\* The first instant at which the timeout of breaker b has elapsed.
TimeoutEnd(b) == unwrap(b.last_failure_time) + b.timeout

\* C36: under every threshold of at least 1 and in every reachable state,
\* each breaker is Closed exactly when its failure_count is below the
\* threshold; when it is Open or HalfOpen its failure_count is at least the
\* threshold and its last_failure_time is set; and for an Open breaker
\* can_execute returns true and leaves Open as soon as the timeout has
\* elapsed.
C36_StateTiedToCount ==
    \A tag \in Tags :
        LET b == breakers[tag] IN
        /\ b.threshold >= 1
        /\ b.state = "Closed" <=> b.failure_count < b.threshold
        /\ b.state \in {"Open", "HalfOpen"} =>
              /\ b.failure_count >= b.threshold
              /\ b.last_failure_time # None
        /\ b.state = "Open" =>
              /\ can_execute(b, TimeoutEnd(b)).ret
              /\ can_execute(b, TimeoutEnd(b)).self.state = "HalfOpen"
              /\ now >= TimeoutEnd(b) => can_execute(b, now).ret

\* C36 witness: with threshold 2 the default breaker is Open after its second
\* failure while the fallback breaker is Closed with one failure counted.
C36_Witness ==
    /\ config.circuit_breaker_threshold = 2
    /\ breakers["default"].state = "Open"
    /\ breakers["default"].failure_count = 2
    /\ breakers["default"].last_failure_time # None
    /\ breakers["fallback"].state = "Closed"
    /\ breakers["fallback"].failure_count = 1

\* ---------------------------------------------------------------- C37

\* The changes of state a breaker may make.
BreakerTransitions ==
    { <<"Closed", "Open">>, <<"Open", "HalfOpen">>,
      <<"HalfOpen", "Closed">>, <<"HalfOpen", "Open">> }

\* C37: in the running system, under every threshold, each change of a
\* breaker's state is Closed to Open, Open to HalfOpen, HalfOpen to Closed
\* or HalfOpen to Open; a breaker leaves Open only in the worker's
\* can_execute step; and while the worker awaits an upstream's answer, after
\* which it calls record_success or record_failure, that upstream's breaker
\* is Closed or HalfOpen.
C37_BreakerTransitions ==
    /\ [](worker.pc = "send_request" =>
            breakers[worker.processor_type].state \in {"Closed", "HalfOpen"})
    /\ [][\A tag \in Tags :
             breakers'[tag].state # breakers[tag].state =>
                /\ <<breakers[tag].state, breakers'[tag].state>>
                      \in BreakerTransitions
                /\ worker.processor_type = tag
                /\ breakers[tag].state = "Open" =>
                      (worker.pc = "try_processor"
                         /\ worker'.pc = "send_request")
                /\ breakers[tag].state # "Open" =>
                      worker.pc = "send_request"]_vars

\* C37 witness: the default breaker was Open when the request in dispatch
\* was received, admitted it as a probe, and is Open again with a second
\* failure counted after the probe failed.
C37_Witness ==
    /\ disp.before # None
    /\ unwrap(disp.before)["default"].state = "Open"
    /\ unwrap(disp.before)["default"].failure_count = 1
    /\ disp.posts = <<"default">>
    /\ disp.oks = <<>>
    /\ breakers["default"].state = "Open"
    /\ breakers["default"].failure_count = 2

\* ---------------------------------------------------------------- C38

\* The handler tasks that have counted their submission and have not yet
\* returned from payment_sender.send.
Enqueueing == {c \in Clients : http[c].pc \in {"insert", "send"}}

\* The number of requests the worker holds: received, not yet counted.
BeingDispatched == IF worker.request # None THEN 1 ELSE 0

\* C38: in every reachable state processed + failed is at most submitted,
\* and submitted is the sum of processed, failed, the requests in the
\* buffer, the request the worker holds and the submissions still inside
\* submit_payment.
C38_CounterAccounting ==
    /\ metrics.processed + metrics.failed <= metrics.submitted
    /\ metrics.submitted =
          metrics.processed + metrics.failed + Len(queue)
            + BeingDispatched + Cardinality(Enqueueing)

\* C38 witness: far from quiescence, one request is written and not yet
\* counted while the other submission is still waiting to enqueue; nothing
\* has been counted as processed or failed.
C38_Witness ==
    /\ metrics = [submitted |-> 2, processed |-> 0, failed |-> 0]
    /\ worker.pc = "count"
    /\ Len(queue) = 0
    /\ \E c \in Clients : http[c].pc = "send"

====
